---- MODULE Spec2Model ----
(***************************************************************************)
(* Model of src/deep_agent/agent.py: the credential resolver, the agent    *)
(* builder, the query runner, the module-level default agent and the CLI   *)
(* loop of main.                                                           *)
(*                                                                         *)
(* Python strings are sequences of one-character strings, so that          *)
(* str.strip and str.lower are computed and not assumed.  Python's None is *)
(* the one-element sequence None, whose element is no character.           *)
(***************************************************************************)
EXTENDS Integers, Sequences, FiniteSets, TLC

(* ---------------------------------------------------------------- bounds *)

\* Iterations of main's while loop that are explored.
MaxIter == 2

\* Calls a host program makes of the module's functions.
MaxCalls == 1

(* --------------------------------------------------------------- strings *)

None == <<"None">>

Truthy(v) == v # None /\ v # <<>>

IsSpace(c) == c = " "

LowerChar(c) ==
    CASE c = "Q" -> "q"
      [] c = "U" -> "u"
      [] c = "I" -> "i"
      [] c = "T" -> "t"
      [] c = "E" -> "e"
      [] c = "X" -> "x"
      [] OTHER -> c

Lower(s) == [i \in 1..Len(s) |-> LowerChar(s[i])]

RECURSIVE LStrip(_)
LStrip(s) == IF s # <<>> /\ IsSpace(Head(s)) THEN LStrip(Tail(s)) ELSE s

RECURSIVE RStrip(_)
RStrip(s) ==
    IF s # <<>> /\ IsSpace(s[Len(s)]) THEN RStrip(SubSeq(s, 1, Len(s) - 1)) ELSE s

Strip(s) == RStrip(LStrip(s))

QuitWords == { <<"q","u","i","t">>, <<"e","x","i","t">> }

(* ------------------------------------------------------- input universes *)

\* Lines the operator can type at input(), and values of the positional
\* argument (which may also be absent).
Lines ==
    { <<>>,
      <<" ">>,
      <<"q","u","i","t">>,
      <<" ","q","u","i","t"," ">>,
      <<"E","X","I","T">>,
      <<"a","?">>,
      <<" ","a","?">> }

PositionalArgs == Lines \cup {None}

\* What the operator can type at the getpass prompt.
Entries == { <<>>, <<" ">>, <<"g">>, <<" ","g"," ">> }

VarNames == {"TAVILY_API_KEY", "GOOGLE_API_KEY"}

\* os.getenv(name): None when unset, else the string.
EnvValues == { None, <<>>, <<"k">> }

DEFAULT_SYSTEM_PROMPT == <<"D">>

DefaultModel == "gemini-2.5-flash-lite"

ResearchAgentConfig(model, system_prompt, prompt_for_google_key) ==
    [model |-> model, system_prompt |-> system_prompt,
     prompt_for_google_key |-> prompt_for_google_key]

DEFAULT_CONFIG == ResearchAgentConfig(DefaultModel, DEFAULT_SYSTEM_PROMPT, TRUE)

NoConfig == ResearchAgentConfig("None", None, FALSE)

Models == {DefaultModel, "other-model"}

SystemPromptArgs == { None, <<>>, <<"s">> }

Argvs ==
    [question : PositionalArgs, model : Models,
     system_prompt : SystemPromptArgs, no_google_prompt : BOOLEAN]

(* ----------------------------------------------------------------- errors *)

NoError == [type |-> "none", var |-> "", msg |-> ""]

ValueError(var_name, msg) == [type |-> "ValueError", var |-> var_name, msg |-> msg]

ProviderError == [type |-> "ProviderError", var |-> "", msg |-> ""]

EOFError == [type |-> "EOFError", var |-> "", msg |-> ""]

(* ------------------------------------------------- the world outside main *)

\* What the functions of the module read and write besides their arguments:
\* os.environ, the getpass prompts issued (per variable name), the clients
\* constructed, the agents create_deep_agent returned and the invoke calls
\* the agents received.
NoAgent == [id |-> 0, model |-> "None", system_prompt |-> None, tavily_key |-> None]

NoResult == [kind |-> "none", messages |-> <<>>]

Message(role, content) == [role |-> role, content |-> content]

\* What agent.invoke can return: a mapping without "messages", one whose
\* "messages" is the empty list, and one with a non-empty message list.
Results ==
    { [kind |-> "absent", messages |-> <<>>],
      [kind |-> "list", messages |-> <<>>],
      [kind |-> "list", messages |-> <<Message("user", <<"Q">>), Message("assistant", <<"A">>)>>] }

\* Whether the constructors that build_research_agent calls succeed, or
\* create_deep_agent raises once both clients are made.
CtorOutcomes == {"ok", "framework_raises"}

\* _require_env testing "value is not None" where the code tests "value".
RequireEnvAcceptsEmpty(w, var_name, prompt_if_missing, typed) ==
    LET value == w.environ[var_name]
        entered == Strip(typed)
        asked == [w EXCEPT !.prompts[var_name] = @ + 1]
    IN  IF value # None
        THEN [raised |-> FALSE, error |-> NoError, value |-> value, world |-> w]
        ELSE IF ~prompt_if_missing
        THEN [raised |-> TRUE,
              error |-> ValueError(var_name, "must be set in the environment variables."),
              value |-> None, world |-> w]
        ELSE IF ~Truthy(entered)
        THEN [raised |-> TRUE, error |-> ValueError(var_name, "is required."),
              value |-> None, world |-> asked]
        ELSE [raised |-> FALSE, error |-> NoError, value |-> entered,
              world |-> [asked EXCEPT !.environ[var_name] = entered]]

\* _require_env without the .strip() of what getpass returned.
RequireEnvNoStrip(w, var_name, prompt_if_missing, typed) ==
    LET value == w.environ[var_name]
        entered == typed
        asked == [w EXCEPT !.prompts[var_name] = @ + 1]
    IN  IF Truthy(value)
        THEN [raised |-> FALSE, error |-> NoError, value |-> value, world |-> w]
        ELSE IF ~prompt_if_missing
        THEN [raised |-> TRUE,
              error |-> ValueError(var_name, "must be set in the environment variables."),
              value |-> None, world |-> w]
        ELSE IF ~Truthy(entered)
        THEN [raised |-> TRUE, error |-> ValueError(var_name, "is required."),
              value |-> None, world |-> asked]
        ELSE [raised |-> FALSE, error |-> NoError, value |-> entered,
              world |-> [asked EXCEPT !.environ[var_name] = entered]]

\* _require_env without the assignment to os.environ.
RequireEnvNoPersist(w, var_name, prompt_if_missing, typed) ==
    LET value == w.environ[var_name]
        entered == Strip(typed)
        asked == [w EXCEPT !.prompts[var_name] = @ + 1]
    IN  IF Truthy(value)
        THEN [raised |-> FALSE, error |-> NoError, value |-> value, world |-> w]
        ELSE IF ~prompt_if_missing
        THEN [raised |-> TRUE,
              error |-> ValueError(var_name, "must be set in the environment variables."),
              value |-> None, world |-> w]
        ELSE IF ~Truthy(entered)
        THEN [raised |-> TRUE, error |-> ValueError(var_name, "is required."),
              value |-> None, world |-> asked]
        ELSE [raised |-> FALSE, error |-> NoError, value |-> entered, world |-> asked]

\* _require_env, lines 42-55.  typed is what the operator types if getpass
\* is reached.
RequireEnv(w, var_name, prompt_if_missing, typed) ==
    LET value == w.environ[var_name]
        entered == Strip(typed)
        asked == [w EXCEPT !.prompts[var_name] = @ + 1]
    IN  IF Truthy(value)
        THEN [raised |-> FALSE, error |-> NoError, value |-> value, world |-> w]
        ELSE IF ~prompt_if_missing
        THEN [raised |-> TRUE,
              error |-> ValueError(var_name, "must be set in the environment variables."),
              value |-> None, world |-> w]
        ELSE IF ~Truthy(entered)
        THEN [raised |-> TRUE, error |-> ValueError(var_name, "is required."),
              value |-> None, world |-> asked]
        ELSE [raised |-> FALSE, error |-> NoError, value |-> entered,
              world |-> [asked EXCEPT !.environ[var_name] = entered]]

\* build_research_agent, lines 78-92.
BuildResearchAgent(w, config, typed, ctor) ==
    LET cfg == IF config = NoConfig THEN DEFAULT_CONFIG ELSE config
        w0 == [w EXCEPT !.buildCalls = @ + 1]
        t == RequireEnv(w0, "TAVILY_API_KEY", FALSE, typed)
        g == RequireEnv(t.world, "GOOGLE_API_KEY", cfg.prompt_for_google_key, typed)
        w1 == [g.world EXCEPT !.tavilyClients = @ + 1]
        w2 == [w1 EXCEPT !.modelClients = @ + 1]
        made == [id |-> Len(w2.created) + 1, model |-> cfg.model,
                 system_prompt |-> cfg.system_prompt, tavily_key |-> t.value]
        failed(e, world) == [raised |-> TRUE, error |-> e, agent |-> NoAgent, world |-> world]
    IN  IF t.raised THEN failed(t.error, t.world)
        ELSE IF g.raised THEN failed(g.error, g.world)
        ELSE IF ctor = "framework_raises" THEN failed(ProviderError, w2)
        ELSE [raised |-> FALSE, error |-> NoError, agent |-> made,
              world |-> [w2 EXCEPT !.created = Append(@, made)]]

\* The response taken from the first message where the code takes the last.
ExtractResponseFirst(result) ==
    LET messages == IF result.kind = "list" THEN result.messages ELSE <<>>
    IN  IF messages # <<>>
        THEN [kind |-> "content", content |-> messages[1].content, result |-> NoResult]
        ELSE [kind |-> "result", content |-> None, result |-> result]

\* lines 99-102 of run_research_query: the response taken from the result.
ExtractResponse(result) ==
    LET messages == IF result.kind = "list" THEN result.messages ELSE <<>>
    IN  IF messages # <<>>
        THEN [kind |-> "content", content |-> messages[Len(messages)].content,
              result |-> NoResult]
        ELSE [kind |-> "result", content |-> None, result |-> result]

NoResponse == [kind |-> "none", content |-> None, result |-> NoResult]

\* agent.invoke raising instead of returning a result.
Raises == [kind |-> "raises", messages |-> <<>>]

\* run_research_query reusing an agent built earlier (the module-level one
\* first) where the code builds one for the call.
RunResearchQueryReusesAgent(w, q, agent, config, typed, ctor, outcome) ==
    LET b == IF agent # NoAgent
             THEN [raised |-> FALSE, error |-> NoError, agent |-> agent, world |-> w]
             ELSE IF w.created # <<>>
             THEN [raised |-> FALSE, error |-> NoError, agent |-> w.created[1], world |-> w]
             ELSE BuildResearchAgent(w, config, typed, ctor)
        call == [agent |-> b.agent.id, messages |-> <<Message("user", q)>>]
        w1 == [b.world EXCEPT !.invocations = Append(@, call)]
    IN  IF b.raised
        THEN [raised |-> TRUE, error |-> b.error, response |-> NoResponse, world |-> b.world]
        ELSE IF outcome = Raises
        THEN [raised |-> TRUE, error |-> ProviderError, response |-> NoResponse, world |-> w1]
        ELSE [raised |-> FALSE, error |-> NoError, response |-> ExtractResponse(outcome),
              world |-> w1]

\* run_research_query, lines 95-102.  outcome is Raises when agent.invoke
\* raises, else the result it returns.
RunResearchQuery(w, q, agent, config, typed, ctor, outcome) ==
    LET b == IF agent # NoAgent
             THEN [raised |-> FALSE, error |-> NoError, agent |-> agent, world |-> w]
             ELSE BuildResearchAgent(w, config, typed, ctor)
        call == [agent |-> b.agent.id, messages |-> <<Message("user", q)>>]
        w1 == [b.world EXCEPT !.invocations = Append(@, call)]
    IN  IF b.raised
        THEN [raised |-> TRUE, error |-> b.error, response |-> NoResponse, world |-> b.world]
        ELSE IF outcome = Raises
        THEN [raised |-> TRUE, error |-> ProviderError, response |-> NoResponse, world |-> w1]
        ELSE [raised |-> FALSE, error |-> NoError, response |-> ExtractResponse(outcome),
              world |-> w1]

(* ------------------------------------------------------------------ state *)

VARIABLES
    pc,            \* where the process is: "start" (before the module body
                   \* ran), "imported", "await", "classify", "printing",
                   \* "done" (main returned), "crashed" (uncaught error),
                   \* "lib" (the functions are called by a host program)
    argv,          \* the command line of the process
    environ,       \* os.environ, after load_dotenv
    prompts,       \* getpass prompts issued, per variable name
    buildCalls,    \* calls of build_research_agent
    tavilyClients, \* TavilyClient objects constructed
    modelClients,  \* ChatGoogleGenerativeAI objects constructed
    created,       \* agents returned by create_deep_agent, in order
    invocations,   \* agent.invoke calls, in order
    defaultAgent,  \* the module-level name agent
    config,        \* main's config
    question,      \* main's question
    response,      \* main's response
    stdout,        \* what main printed, in order
    stdinReads,    \* input() calls that returned a line
    dispatches,    \* run_research_query calls made by main, in order, each
                   \* with the input it was made for
    iter,          \* iterations of main's loop begun
    exitStatus,    \* main's return value, -1 while it has not returned
    error,         \* the uncaught error that ended the process
    lastInput,     \* the input taken by the current iteration, as given
    taken,         \* how many inputs were taken that were empty, quit
                   \* commands, and neither
    atMain,        \* buildCalls and prompts when main began
    lastCall       \* the last call a host program made and what it returned

vars == <<pc, argv, environ, prompts, buildCalls, tavilyClients, modelClients,
          created, invocations, defaultAgent, config, question, response, stdout,
          stdinReads, dispatches, iter, exitStatus, error, lastInput, taken,
          atMain, lastCall>>

worldVars == <<environ, prompts, buildCalls, tavilyClients, modelClients,
               created, invocations>>

mainVars == <<config, question, response, stdout, stdinReads, dispatches, iter,
              exitStatus, lastInput, taken, atMain>>

World ==
    [environ |-> environ, prompts |-> prompts, buildCalls |-> buildCalls,
     tavilyClients |-> tavilyClients, modelClients |-> modelClients,
     created |-> created, invocations |-> invocations]

SetWorld(w) ==
    /\ environ' = w.environ
    /\ prompts' = w.prompts
    /\ buildCalls' = w.buildCalls
    /\ tavilyClients' = w.tavilyClients
    /\ modelClients' = w.modelClients
    /\ created' = w.created
    /\ invocations' = w.invocations

NoCall ==
    [n |-> 0, op |-> "none", var |-> "", prompt |-> FALSE, typed |-> <<>>, q |-> None,
     agent |-> NoAgent, config |-> NoConfig, outcome |-> NoResult,
     before |-> [environ |-> [v \in VarNames |-> None], prompts |-> [v \in VarNames |-> 0],
                 buildCalls |-> 0, tavilyClients |-> 0, modelClients |-> 0,
                 created |-> <<>>, invocations |-> <<>>],
     raised |-> FALSE, error |-> NoError, value |-> None, response |-> NoResponse]

NoInput == [source |-> "none", raw |-> None]

SeparatorWidth == 40

Reminder == [kind |-> "reminder", value |-> NoResponse, width |-> 0]

Printed(r) == [kind |-> "response", value |-> r, width |-> 0]

Separator == [kind |-> "separator", value |-> NoResponse, width |-> SeparatorWidth]

\* The state of a process before the module body runs: any environment and
\* any command line; nothing built, prompted, read or printed.
InitWorld ==
    /\ environ \in [VarNames -> EnvValues]
    /\ prompts = [v \in VarNames |-> 0]
    /\ buildCalls = 0
    /\ tavilyClients = 0
    /\ modelClients = 0
    /\ created = <<>>
    /\ invocations = <<>>

InitMain ==
    /\ defaultAgent = NoAgent
    /\ config = NoConfig
    /\ question = None
    /\ response = NoResponse
    /\ stdout = <<>>
    /\ stdinReads = 0
    /\ dispatches = <<>>
    /\ iter = 0
    /\ exitStatus = -1
    /\ error = NoError
    /\ lastInput = NoInput
    /\ taken = [empty |-> 0, quit |-> 0, other |-> 0]
    /\ atMain = [buildCalls |-> 0, prompts |-> 0, created |-> 0]
    /\ lastCall = NoCall

\* A process that runs the module: the module body, then main.
InitProcess ==
    /\ pc = "start"
    /\ argv \in Argvs
    /\ InitWorld
    /\ InitMain

NoArgv == [question |-> None, model |-> DefaultModel, system_prompt |-> None,
           no_google_prompt |-> FALSE]

\* A host program (a test, a script) that has imported the module, set the
\* environment as it likes and calls the module's functions itself.
InitHost ==
    /\ pc = "lib"
    /\ argv = NoArgv
    /\ InitWorld
    /\ InitMain

Init == InitProcess \/ InitHost

\* An error caught by a handler that goes on with the loop.
CrashCaught(e) ==
    /\ pc' = "await"
    /\ error' = e

\* An uncaught error: the process ends with the error and main returns nothing.
Crash(e) ==
    /\ pc' = "crashed"
    /\ error' = e

\* The module body, lines 39 and 105-106: load_dotenv (its effect is part of
\* the initial environ) and agent = build_research_agent(DEFAULT_CONFIG).
ImportModule ==
    /\ pc = "start"
    /\ \E typed \in Entries, ctor \in CtorOutcomes :
          LET b == BuildResearchAgent(World, DEFAULT_CONFIG, typed, ctor)
          IN  /\ SetWorld(b.world)
              /\ IF b.raised
                 THEN Crash(b.error) /\ UNCHANGED defaultAgent
                 ELSE pc' = "imported" /\ defaultAgent' = b.agent /\ UNCHANGED error
    /\ UNCHANGED <<argv, mainVars, lastCall>>

\* main, lines 135-144: the arguments parsed, config and question set.
EnterMain ==
    /\ pc = "imported"
    /\ config' = ResearchAgentConfig(
                     argv.model,
                     IF Truthy(argv.system_prompt) THEN argv.system_prompt
                     ELSE DEFAULT_CONFIG.system_prompt,
                     ~argv.no_google_prompt)
    /\ question' = argv.question
    /\ atMain' = [buildCalls |-> buildCalls, prompts |-> prompts["GOOGLE_API_KEY"],
                  created |-> Len(created)]
    /\ pc' = "await"
    /\ UNCHANGED <<argv, worldVars, defaultAgent, response, stdout, stdinReads,
                   dispatches, iter, exitStatus, error, lastInput, taken, lastCall>>

\* A quit test that forgets .lower().
IsQuitCommandCaseSensitive(q) == q \in QuitWords

\* Lines 148-149: lowered = question.lower(); lowered in {"quit", "exit"}.
IsQuitCommand(q) == Lower(q) \in QuitWords

\* The record taken with one more input counted in its class: a quit
\* command (ignoring letter case), the empty string, or any other string.
Count(q) ==
    IF Lower(q) \in QuitWords THEN [taken EXCEPT !.quit = @ + 1]
    ELSE IF q = <<>> THEN [taken EXCEPT !.empty = @ + 1]
    ELSE [taken EXCEPT !.other = @ + 1]

\* Lines 146-147 with a pending question: nothing is read.
UsePending ==
    /\ pc = "await"
    /\ iter < MaxIter
    /\ Truthy(question)
    /\ iter' = iter + 1
    /\ lastInput' = [source |-> "argv", raw |-> question]
    /\ taken' = Count(question)
    /\ pc' = "classify"
    /\ UNCHANGED <<argv, worldVars, defaultAgent, config, question, response, stdout,
                   stdinReads, dispatches, exitStatus, error, atMain, lastCall>>

\* Lines 146-147 without one: input() returns a line, which is stripped.
ReadLine ==
    /\ pc = "await"
    /\ iter < MaxIter
    /\ ~Truthy(question)
    /\ \E line \in Lines :
          /\ question' = Strip(line)
          /\ lastInput' = [source |-> "stdin", raw |-> line]
          /\ taken' = Count(Strip(line))
    /\ stdinReads' = stdinReads + 1
    /\ iter' = iter + 1
    /\ pc' = "classify"
    /\ UNCHANGED <<argv, worldVars, defaultAgent, config, response, stdout,
                   dispatches, exitStatus, error, atMain, lastCall>>

\* Lines 146-147 without one, standard input at its end: input() raises.
ReadEOF ==
    /\ pc = "await"
    /\ iter < MaxIter
    /\ ~Truthy(question)
    /\ iter' = iter + 1
    /\ Crash(EOFError)
    /\ UNCHANGED <<argv, worldVars, defaultAgent, config, question, response, stdout,
                   stdinReads, dispatches, exitStatus, lastInput, taken, atMain,
                   lastCall>>

\* Lines 148-150 and 161: a quit command leaves the loop and main returns 0.
Quit ==
    /\ pc = "classify"
    /\ IsQuitCommand(question)
    /\ exitStatus' = 0
    /\ pc' = "done"
    /\ UNCHANGED <<argv, worldVars, defaultAgent, config, question, response, stdout,
                   stdinReads, dispatches, iter, error, lastInput, taken, atMain,
                   lastCall>>

\* Lines 151-154: an empty question prints the reminder and asks again.
Remind ==
    /\ pc = "classify"
    /\ ~IsQuitCommand(question)
    /\ ~Truthy(question)
    /\ stdout' = Append(stdout, Reminder)
    /\ question' = None
    /\ pc' = "await"
    /\ UNCHANGED <<argv, worldVars, defaultAgent, config, response, stdinReads,
                   dispatches, iter, exitStatus, error, lastInput, taken, atMain,
                   lastCall>>

\* Line 156: run_research_query(question, config=config); an error it raises
\* is caught nowhere.
Dispatch ==
    /\ pc = "classify"
    /\ ~IsQuitCommand(question)
    /\ Truthy(question)
    /\ dispatches' = Append(dispatches, [source |-> lastInput.source, iter |-> iter,
                                         reads |-> stdinReads])
    /\ \E typed \in Entries, ctor \in CtorOutcomes, outcome \in Results \cup {Raises} :
          LET r == RunResearchQuery(World, question, NoAgent, config, typed, ctor, outcome)
          IN  /\ SetWorld(r.world)
              /\ IF r.raised
                 THEN Crash(r.error) /\ UNCHANGED response
                 ELSE pc' = "printing" /\ response' = r.response /\ UNCHANGED error
    /\ UNCHANGED <<argv, defaultAgent, config, question, stdout, stdinReads, iter,
                   exitStatus, lastInput, taken, atMain, lastCall>>

\* Lines 157-158 without line 159: the question is kept.
PrintResponseKeepsQuestion ==
    /\ pc = "printing"
    /\ stdout' = stdout \o <<Printed(response), Separator>>
    /\ pc' = "await"
    /\ UNCHANGED <<argv, worldVars, defaultAgent, config, question, response, stdinReads,
                   dispatches, iter, exitStatus, error, lastInput, taken, atMain,
                   lastCall>>

\* Lines 157-159: the response and the separator printed, the question cleared.
PrintResponse ==
    /\ pc = "printing"
    /\ stdout' = stdout \o <<Printed(response), Separator>>
    /\ question' = None
    /\ pc' = "await"
    /\ UNCHANGED <<argv, worldVars, defaultAgent, config, response, stdinReads,
                   dispatches, iter, exitStatus, error, lastInput, taken, atMain,
                   lastCall>>

(* --------------------------------------------------- calls from a host *)

\* An agent object the host made itself and passes to run_research_query.
HostAgent == [id |-> 99, model |-> "host", system_prompt |-> None, tavily_key |-> None]

HostConfigs ==
    { NoConfig,
      ResearchAgentConfig("other-model", <<"s">>, TRUE),
      ResearchAgentConfig("other-model", <<"s">>, FALSE) }

HostQuestions == { <<>>, <<"a","?">> }

Called(op) == [NoCall EXCEPT !.n = lastCall.n + 1, !.op = op, !.before = World]

\* The host calls _require_env(var_name, prompt_if_missing=prompt).
CallRequireEnv ==
    /\ pc = "lib"
    /\ lastCall.n < MaxCalls
    /\ \E var_name \in VarNames, prompt \in BOOLEAN, typed \in Entries :
          LET r == RequireEnv(World, var_name, prompt, typed)
          IN  /\ SetWorld(r.world)
              /\ lastCall' = [Called("require_env") EXCEPT
                                !.var = var_name, !.prompt = prompt, !.typed = typed,
                                !.raised = r.raised, !.error = r.error, !.value = r.value]
    /\ UNCHANGED <<pc, argv, defaultAgent, mainVars, error>>

\* The host calls build_research_agent(config).
CallBuildResearchAgent ==
    /\ pc = "lib"
    /\ lastCall.n < MaxCalls
    /\ \E cfg \in HostConfigs, typed \in Entries, ctor \in CtorOutcomes :
          LET r == BuildResearchAgent(World, cfg, typed, ctor)
          IN  /\ SetWorld(r.world)
              /\ lastCall' = [Called("build") EXCEPT
                                !.config = cfg, !.typed = typed, !.agent = r.agent,
                                !.raised = r.raised, !.error = r.error]
    /\ UNCHANGED <<pc, argv, defaultAgent, mainVars, error>>

\* The host calls run_research_query(q, agent=agent, config=config).
CallRunResearchQuery ==
    /\ pc = "lib"
    /\ lastCall.n < MaxCalls
    /\ \E q \in HostQuestions, agent \in {NoAgent, HostAgent}, cfg \in HostConfigs,
          typed \in Entries, ctor \in CtorOutcomes, outcome \in Results \cup {Raises} :
          LET r == RunResearchQuery(World, q, agent, cfg, typed, ctor, outcome)
          IN  /\ SetWorld(r.world)
              /\ lastCall' = [Called("query") EXCEPT
                                !.q = q, !.agent = agent, !.config = cfg, !.typed = typed,
                                !.outcome = outcome, !.raised = r.raised,
                                !.error = r.error, !.response = r.response]
    /\ UNCHANGED <<pc, argv, defaultAgent, mainVars, error>>

Next ==
    \/ ImportModule
    \/ EnterMain
    \/ UsePending
    \/ ReadLine
    \/ ReadEOF
    \/ Quit
    \/ Remind
    \/ Dispatch
    \/ PrintResponse
    \/ CallRequireEnv
    \/ CallBuildResearchAgent
    \/ CallRunResearchQuery

Spec == Init /\ [][Next]_vars

(* ----------------------------------------------------------- properties *)

\* main has begun (its config is set).
InMain == config # NoConfig

G == "GOOGLE_API_KEY"

T == "TAVILY_API_KEY"

Printings(kind) == Cardinality({i \in 1..Len(stdout) : stdout[i].kind = kind})

\* The input of the current iteration is a quit command in the words of
\* section 4.5: trimmed, and ignoring letter case.
TrimmedQuit(raw) == Lower(Strip(raw)) \in QuitWords

\* C1: every input taken in AwaitingInput, positional or read from standard
\* input, that is "quit" or "exit" once trimmed and lower-cased ends the loop:
\* main returns 0 and the query runner is not called for that input.
C1_QuitInputTerminates ==
    (InMain /\ pc # "classify" /\ lastInput # NoInput /\ TrimmedQuit(lastInput.raw))
        => /\ pc = "done"
           /\ exitStatus = 0
           /\ \A i \in 1..Len(dispatches) : dispatches[i].iter # iter

\* C2: with --no-google-prompt and GOOGLE_API_KEY missing, no getpass prompt
\* is ever issued in the process, the module-level construction included,
\* and construction fails with the configuration error naming the variable.
C2_NoPromptWithFlag ==
    (pc \notin {"start", "lib"} /\ argv.no_google_prompt /\ Truthy(environ[T])
        /\ (~Truthy(environ[G]) \/ prompts[G] > 0))
        => /\ prompts[G] = 0
           /\ pc = "crashed"
           /\ error = ValueError(G, "must be set in the environment variables.")

PositionalDispatched == Truthy(argv.question) /\ Lower(argv.question) \notin QuitWords

\* C4: a non-empty, non-quit positional question is dispatched exactly once,
\* in the first iteration and before any read from standard input; once its
\* response is printed the pending question is cleared, and every later
\* iteration reads from standard input.
C4_PositionalDispatchedOnce ==
    (InMain /\ PositionalDispatched)
        => /\ \A i \in 1..Len(dispatches) :
                 dispatches[i].source = "argv"
                     => i = 1 /\ dispatches[i].iter = 1 /\ dispatches[i].reads = 0
           /\ (iter = 1 => lastInput.source = "argv")
           /\ (iter >= 2 /\ error # EOFError => lastInput.source = "stdin")
           /\ (iter >= 1 /\ ~(iter = 1 /\ pc = "classify")
                 => Len(dispatches) >= 1 /\ dispatches[1].source = "argv")
           /\ (Len(invocations) >= 1
                 => invocations[1].messages = <<Message("user", argv.question)>>)
           /\ (pc = "await" /\ iter >= 1 => question = None)
           /\ (stdinReads > 0 => Printings("response") >= 1)

C4_Witness ==
    /\ pc = "done"
    /\ argv.question = <<"a","?">>
    /\ Len(dispatches) = 1
    /\ Len(invocations) = 1
    /\ stdinReads = 1
    /\ Printings("response") = 1

\* A call that ran build_research_agent: the module body, a dispatch of
\* main, or a host's call of it or of run_research_query without an agent.
HostBuilt == lastCall.op = "build" \/ (lastCall.op = "query" /\ lastCall.agent = NoAgent)

\* C5: the clients and the agent are constructed only with TAVILY_API_KEY and
\* GOOGLE_API_KEY both set to non-empty values in the environment; otherwise
\* build_research_agent fails with a configuration error and has constructed
\* no search client, no model client and no agent.
C5_CredentialsBeforeConstruction ==
    /\ (tavilyClients > 0 \/ modelClients > 0 \/ created # <<>>)
          => Truthy(environ[T]) /\ Truthy(environ[G])
    /\ \A i \in 1..Len(created) : Truthy(created[i].tavily_key)
    /\ (HostBuilt /\ (~Truthy(environ[T]) \/ ~Truthy(environ[G])))
          => /\ lastCall.raised
             /\ lastCall.error.type = "ValueError"
             /\ lastCall.error.var \in VarNames
             /\ ~Truthy(environ[lastCall.error.var])
    /\ (HostBuilt /\ lastCall.raised /\ lastCall.error.type = "ValueError")
          => /\ tavilyClients = lastCall.before.tavilyClients
             /\ modelClients = lastCall.before.modelClients
             /\ created = lastCall.before.created
             /\ invocations = lastCall.before.invocations
    /\ (pc = "crashed" /\ error.type = "ValueError")
          => /\ tavilyClients = 0 /\ modelClients = 0 /\ created = <<>>
             /\ ~Truthy(environ[error.var])
    /\ (pc \notin {"start", "crashed", "lib"}) => defaultAgent # NoAgent /\ created # <<>>

\* build_research_agent called with the model-provider key missing: the key
\* is entered at the prompt and the agent is then constructed.
C5_Witness ==
    /\ lastCall.op = "build"
    /\ ~lastCall.raised
    /\ lastCall.before.environ[G] = None
    /\ Len(created) = 1
    /\ Truthy(environ[G])

MissingBefore == ~Truthy(lastCall.before.environ[lastCall.var])

\* C6: for a missing variable with prompting enabled and every non-empty
\* value entered, _require_env returns the entered value and os.environ maps
\* the name to it.
C6_ReturnsEnteredValue ==
    (lastCall.op = "require_env" /\ MissingBefore /\ lastCall.prompt
        /\ lastCall.typed # <<>>)
        => /\ ~lastCall.raised
           /\ lastCall.value = lastCall.typed
           /\ environ[lastCall.var] = lastCall.value

\* C6 as amended: for a missing variable with prompting enabled and every
\* entered value that is non-empty once trimmed, _require_env returns the
\* trimmed value, os.environ maps the name to it, and a later lookup of the
\* name returns it without a prompt.
C6_ReturnsTrimmedValue ==
    (lastCall.op = "require_env" /\ MissingBefore /\ lastCall.prompt
        /\ Strip(lastCall.typed) # <<>>)
        => /\ ~lastCall.raised
           /\ lastCall.value = Strip(lastCall.typed)
           /\ environ[lastCall.var] = lastCall.value
           /\ prompts[lastCall.var] = lastCall.before.prompts[lastCall.var] + 1
           /\ \A typed \in Entries :
                 LET again == RequireEnv(World, lastCall.var, FALSE, typed)
                 IN  /\ ~again.raised
                     /\ again.value = lastCall.value
                     /\ again.world = World

C6_Witness ==
    /\ lastCall.op = "require_env"
    /\ lastCall.var = T
    /\ lastCall.before.environ[T] = <<>>
    /\ lastCall.prompt
    /\ lastCall.typed = <<" ","g"," ">>
    /\ lastCall.value = <<"g">>
    /\ environ[T] = <<"g">>

\* C7: run_research_query invokes the agent exactly once, with exactly one
\* user message whose content is the question; it returns the content of the
\* last message of a non-empty message sequence, and the result itself when
\* the sequence is empty or absent.
C7_OneInvocationLastMessage ==
    (lastCall.op = "query" /\ ~lastCall.raised)
        => LET n == Len(invocations)
               result == lastCall.outcome
               nonEmpty == result.kind = "list" /\ Len(result.messages) > 0
           IN  /\ n = Len(lastCall.before.invocations) + 1
               /\ invocations[n].messages = <<[role |-> "user", content |-> lastCall.q]>>
               /\ (lastCall.agent # NoAgent => invocations[n].agent = lastCall.agent.id)
               /\ (nonEmpty =>
                     /\ lastCall.response.kind = "content"
                     /\ lastCall.response.content
                           = result.messages[Len(result.messages)].content)
               /\ (~nonEmpty =>
                     /\ lastCall.response.kind = "result"
                     /\ lastCall.response.result = result)

\* The result [user "Q", assistant "A"] gives "A".
C7_Witness ==
    /\ lastCall.op = "query"
    /\ ~lastCall.raised
    /\ lastCall.q = <<"a","?">>
    /\ Len(lastCall.outcome.messages) = 2
    /\ lastCall.response.content = <<"A">>
    /\ Len(invocations) = 1

\* An error raised while dispatching: from agent construction or the agent.
DispatchError == InMain /\ error.type \in {"ValueError", "ProviderError"}

\* C8: an error raised while Dispatching is not caught: nothing is printed
\* for that question, nothing more is read or dispatched, and main does not
\* return 0; status 0 is returned only in Terminated, reached by a quit
\* command.
C8_DispatchErrorEndsProcess ==
    [][ /\ (error # NoError =>
              /\ pc' = pc /\ stdout' = stdout /\ stdinReads' = stdinReads
              /\ dispatches' = dispatches /\ invocations' = invocations
              /\ exitStatus' = exitStatus /\ error' = error)
        /\ (error' # NoError => pc' = "crashed" /\ exitStatus' # 0)
        /\ (DispatchError' =>
              /\ Printings("response")' = Len(dispatches') - 1
              /\ Printings("separator")' = Len(dispatches') - 1
              /\ dispatches'[Len(dispatches')].iter = iter')
        /\ (exitStatus' = 0 =>
              pc' = "done" /\ error' = NoError /\ Lower(question') \in QuitWords)
      ]_vars

\* The second question dispatched fails in the provider after the first was
\* answered and printed.
C8_Witness ==
    /\ pc = "crashed"
    /\ InMain
    /\ error = ProviderError
    /\ Len(dispatches) = 2
    /\ Printings("response") = 1
    /\ Printings("separator") = 1
    /\ exitStatus # 0

\* C9: in a process run (the module body, then main) the hidden prompt is
\* issued at most once and only for GOOGLE_API_KEY; a value entered is kept
\* in the environment, so that no later construction prompts; an empty entry
\* fails at once.
C9_AtMostOnePrompt ==
    (pc # "lib")
        => /\ prompts[T] = 0
           /\ prompts[G] <= 1
           /\ (prompts[G] = 1 =>
                 \/ Truthy(environ[G])
                 \/ /\ pc = "crashed"
                    /\ error = ValueError(G, "is required.")
                    /\ created = <<>>)
           /\ (InMain => prompts[G] = atMain.prompts)
           /\ (InMain => buildCalls = atMain.buildCalls + Len(dispatches))

\* The key was entered at the prompt of the module body, and a question was
\* then dispatched and answered with prompting enabled.
C9_Witness ==
    /\ pc = "printing"
    /\ prompts[G] = 1
    /\ config.prompt_for_google_key
    /\ Len(created) = 2
    /\ Len(dispatches) = 1

\* C10: every question the CLI loop dispatches runs on an agent built for it
\* from main's config, so main's constructions are as many as its dispatches;
\* the module-level agent is never invoked by the loop; run_research_query
\* builds an agent only when its caller supplies none.
C10_FreshAgentPerDispatch ==
    /\ InMain =>
          /\ buildCalls - atMain.buildCalls = Len(dispatches)
          /\ config = ResearchAgentConfig(
                          argv.model,
                          IF argv.system_prompt \in {None, <<>>}
                          THEN DEFAULT_SYSTEM_PROMPT ELSE argv.system_prompt,
                          ~argv.no_google_prompt)
          /\ \A i \in 1..Len(invocations) :
                LET a == invocations[i].agent
                IN  /\ a # defaultAgent.id
                    /\ a \in (atMain.created + 1)..Len(created)
                    /\ created[a].model = config.model
                    /\ created[a].system_prompt = config.system_prompt
                    /\ \A j \in 1..Len(invocations) : j # i => invocations[j].agent # a
          /\ (error = NoError /\ pc # "classify" =>
                Len(invocations) = Len(dispatches)
                /\ Len(created) = atMain.created + Len(dispatches))
    /\ lastCall.op = "query" =>
          /\ (lastCall.agent = NoAgent <=> buildCalls = lastCall.before.buildCalls + 1)
          /\ (lastCall.agent # NoAgent =>
                /\ buildCalls = lastCall.before.buildCalls
                /\ created = lastCall.before.created
                /\ prompts = lastCall.before.prompts
                /\ invocations[Len(invocations)].agent = lastCall.agent.id)

\* Two questions dispatched with a model given on the command line, each on
\* its own agent.
C10_Witness ==
    /\ InMain
    /\ argv.model = "other-model"
    /\ Len(dispatches) = 2
    /\ Len(invocations) = 2
    /\ Len(created) = 3
    /\ defaultAgent.id = 1
    /\ invocations[1].agent = 2
    /\ invocations[2].agent = 3

====
